---------------------------- MODULE Spec2Model ----------------------------
(***************************************************************************)
(* A model of scripts/scan_custom_node.py: the scan orchestrator           *)
(* (scan_custom_node), the linter adapter (_run_bandit), the static rule   *)
(* engine (_static_scan and its helpers) and the sandbox runtime           *)
(* (_run_dynamic_analysis supervising _dynamic_import_worker through a     *)
(* multiprocessing queue).                                                 *)
(*                                                                         *)
(* An issue is a record [severity, detail, engine].  detail is the         *)
(* rendered text, kept structured as [msg, arg, line]: msg is the message  *)
(* template, arg the text substituted into it (a sequence of strings, a    *)
(* dotted name by its components), line the "(line N)" suffix (0 when the  *)
(* code appends none).  engine is a history tag naming the     *)
(* producer of the issue; the code never reads it.                         *)
(***************************************************************************)
EXTENDS Integers, Sequences, FiniteSets, TLC

----------------------------------------------------------------------------
(* Bounds of the model *)

MaxLines == 2        \* lines of a scanned source
MaxStmts == 3        \* simple statements of a scanned source
MaxOps   == 3        \* intercepted operations a target performs before it ends
MaxLog   == 5        \* records a worker puts on the queue

(* Program constants *)

DYNAMIC_TIMEOUT_SECONDS == 5
TERMINATE_JOIN_SECONDS  == 1

----------------------------------------------------------------------------
(* Signature catalog *)

RISKY_IMPORTS ==
    [m \in {"os", "subprocess", "socket", "winreg", "ctypes", "requests", "urllib"} |->
        CASE m = "os"         -> "LOW"
          [] m = "subprocess" -> "MEDIUM"
          [] m = "socket"     -> "MEDIUM"
          [] m = "winreg"     -> "MEDIUM"
          [] m = "ctypes"     -> "MEDIUM"
          [] m = "requests"   -> "LOW"
          [] m = "urllib"     -> "LOW"]

DANGEROUS_CALLS ==
    [c \in {<<"eval">>, <<"exec">>, <<"os", "system">>, <<"subprocess", "Popen">>,
            <<"subprocess", "run">>, <<"subprocess", "call">>} |->
        CASE c = <<"eval">>                -> <<"HIGH", "Uses eval() for dynamic code execution.">>
          [] c = <<"exec">>                -> <<"HIGH", "Uses exec() for dynamic code execution.">>
          [] c = <<"os", "system">>        -> <<"HIGH", "Uses os.system() to execute shell commands.">>
          [] c = <<"subprocess", "Popen">> -> <<"HIGH", "Uses subprocess.Popen() to spawn a process.">>
          [] c = <<"subprocess", "run">>   -> <<"MEDIUM", "Uses subprocess.run() to execute a process.">>
          [] c = <<"subprocess", "call">>  -> <<"MEDIUM", "Uses subprocess.call() to execute a process.">>]

NETWORK_CALL_PREFIXES ==
    { <<"requests", "get">>, <<"requests", "post">>, <<"requests", "put">>,
      <<"requests", "delete">>, <<"requests", "request">>,
      <<"urllib", "request", "urlopen">>, <<"urllib", "urlopen">> }

(* The five line patterns, in dictionary order; each is matched by a call  *)
(* to one of the listed names written on the line.                         *)
DANGEROUS_LINE_PATTERNS ==
    << [names |-> {<<"eval">>}, severity |-> "HIGH",
        message |-> "Uses eval() for dynamic code execution."],
       [names |-> {<<"exec">>}, severity |-> "HIGH",
        message |-> "Uses exec() for dynamic code execution."],
       [names |-> {<<"os", "system">>}, severity |-> "HIGH",
        message |-> "Uses os.system() to execute shell commands."],
       [names |-> {<<"subprocess", "Popen">>}, severity |-> "HIGH",
        message |-> "Uses subprocess.Popen() to spawn a process."],
       [names |-> {<<"subprocess", "run">>, <<"subprocess", "call">>}, severity |-> "MEDIUM",
        message |-> "Uses subprocess to execute a process."] >>

(* String literals of the modelled sources and what the regular            *)
(* expressions find in them.                                               *)
URL_RE(lit) == lit \in {"http://example.com/x", "http://10.0.0.5/x"}

IP_RE(lit) == lit \in {"10.0.0.5", "http://10.0.0.5/x"}

PIP_INSTALL_RE(lit) == lit \in {"pip install x"}

PIP_ARGS_RE(lit) == lit \in {"pip", "pip3"}

----------------------------------------------------------------------------
(* Issues *)

Detail(msg, arg, line) == [msg |-> msg, arg |-> arg, line |-> line]

Issue(severity, detail, engine) ==
    [severity |-> severity, detail |-> detail, engine |-> engine]

RECURSIVE Flatten(_)
Flatten(ss) == IF ss = <<>> THEN <<>> ELSE Head(ss) \o Flatten(Tail(ss))

----------------------------------------------------------------------------
(* Static rule engine.                                                     *)
(*                                                                         *)
(* A source is [lines, parse, errline].  lines[i] is the sequence of       *)
(* simple statements written on line i; a statement is                     *)
(*   [kind |-> "Import",     names |-> the dotted names of its aliases]    *)
(*   [kind |-> "ImportFrom", names |-> << node.module >>, or << >> for     *)
(*                                     "from . import x" (module is None)] *)
(*   [kind |-> "Call",       names |-> << the callee expression >>]        *)
(* with literals the string literals reachable from a call's arguments.    *)
(* A dotted name is the sequence of its components.  A callee expression   *)
(* is the attribute chain << root, attr1, ..., attrk >>, with root "" when *)
(* the innermost expression is not a plain name.  parse is what ast.parse  *)
(* does with the text: "ok", "SyntaxError" (at errline) or                 *)
(* "RecursionError" (expression nesting beyond the interpreter's limit).   *)

Front(s) == SubSeq(s, 1, Len(s) - 1)

Last(s) == s[Len(s)]

IsSuffix(t, s) == Len(t) <= Len(s) /\ SubSeq(s, Len(s) - Len(t) + 1, Len(s)) = t

RECURSIVE _full_name(_)
_full_name(node) ==
    IF Len(node) = 1
    THEN IF node[1] # "" THEN node ELSE <<>>
    ELSE LET base == _full_name(Front(node))
         IN  IF base # <<>> THEN Append(base, Last(node)) ELSE <<Last(node)>>

_extract_string_literals(node) == node.literals

_extract_urls_from_call(node) ==
    SelectSeq(_extract_string_literals(node), LAMBDA value : URL_RE(value) \/ IP_RE(value))

_call_invokes_pip(node) ==
    LET values == _extract_string_literals(node)
    IN  \/ \E i \in 1..Len(values) : PIP_INSTALL_RE(values[i])
        \/ \E i \in 1..(Len(values) - 1) : values[i] = "pip" /\ values[i + 1] = "install"
        \/ /\ \E i \in 1..Len(values) : PIP_ARGS_RE(values[i])
           /\ \E i \in 1..Len(values) : values[i] = "install"

(* add_issue on the pair (issues, seen) of the enclosing _static_scan *)
add_issue_nodedup(st, cand) ==
    [issues |-> Append(st.issues, Issue(cand.severity, Detail(cand.msg, cand.arg, cand.line), "static")),
     seen   |-> st.seen \cup {<<cand.severity, Detail(cand.msg, cand.arg, cand.line)>>}]

add_issue(st, cand) ==
    LET detail == Detail(cand.msg, cand.arg, cand.line)
        key    == <<cand.severity, detail>>
    IN  IF key \in st.seen
        THEN st
        ELSE [issues |-> Append(st.issues, Issue(cand.severity, detail, "static")),
              seen   |-> st.seen \cup {key}]

Cand(severity, msg, arg, line) ==
    [severity |-> severity, msg |-> msg, arg |-> arg, line |-> line]

(* The nodes of the tree with their line numbers, in source order *)
Nodes(source) ==
    Flatten([i \in 1..Len(source.lines) |->
                [j \in 1..Len(source.lines[i]) |->
                    [kind     |-> source.lines[i][j].kind,
                     names    |-> source.lines[i][j].names,
                     literals |-> source.lines[i][j].literals,
                     lineno   |-> i]]])

(* ast.walk is breadth first: the statements of the module body come      *)
(* before the call expressions they contain.                               *)
Walk(source) ==
    SelectSeq(Nodes(source), LAMBDA n : n.kind \in {"Import", "ImportFrom"})
        \o SelectSeq(Nodes(source), LAMBDA n : n.kind = "Call")

ImportCands(node) ==
    Flatten([k \in 1..Len(node.names) |->
                LET module == Head(node.names[k])
                IN  IF module \in DOMAIN RISKY_IMPORTS
                    THEN <<Cand(RISKY_IMPORTS[module], "Imports risky module", <<module>>, node.lineno)>>
                    ELSE <<>>])

CallCands(node) ==
    LET call_name == _full_name(node.names[1])
        urls      == _extract_urls_from_call(node)
    IN  (IF call_name \in DOMAIN DANGEROUS_CALLS
         THEN <<Cand(DANGEROUS_CALLS[call_name][1], DANGEROUS_CALLS[call_name][2], <<>>, node.lineno)>>
         ELSE <<>>)
        \o
        (IF call_name \in NETWORK_CALL_PREFIXES \/ (Len(call_name) >= 2 /\ call_name[1] = "urllib")
         THEN <<Cand("MEDIUM", "Network call via", call_name, node.lineno)>>
              \o [u \in 1..Len(urls) |->
                    Cand("MEDIUM", "Network call target appears in code", <<urls[u]>>, node.lineno)]
         ELSE <<>>)
        \o
        (IF /\ call_name \in {<<"subprocess", "run">>, <<"subprocess", "call">>,
                              <<"subprocess", "Popen">>, <<"os", "system">>}
            /\ _call_invokes_pip(node)
         THEN <<Cand("HIGH", "Invokes pip install at runtime.", <<>>, node.lineno)>>
         ELSE <<>>)

NodeCands(node) ==
    IF node.kind = "Call" THEN CallCands(node) ELSE ImportCands(node)

TreeCands(source) ==
    Flatten([k \in 1..Len(Walk(source)) |-> NodeCands(Walk(source)[k])])

(* The line scan of the raw text.  The modelled statements contain no      *)
(* base64 blob, no long identifier and no mining or webhook indicator, so  *)
(* those patterns find nothing.                                            *)
LineLiterals(line) == Flatten([j \in 1..Len(line) |-> line[j].literals])

MentionsNetworkLibrary(line) ==
    \E j \in 1..Len(line) : \E k \in 1..Len(line[j].names) :
        \/ \E c \in 1..Len(line[j].names[k]) : line[j].names[k][c] = "urllib"
        \/ \E c \in 1..(Len(line[j].names[k]) - 1) : line[j].names[k][c] = "requests"

IpOf(lit) == "10.0.0.5"

LineCands(line, idx) ==
    LET lits == LineLiterals(line)
        urlm == SelectSeq(lits, URL_RE)
        ipm  == SelectSeq(lits, IP_RE)
    IN  (IF \E i \in 1..Len(lits) : PIP_INSTALL_RE(lits[i])
         THEN <<Cand("HIGH", "Contains 'pip install' invocation string.", <<>>, idx)>>
         ELSE <<>>)
        \o
        (IF MentionsNetworkLibrary(line)
         THEN (IF urlm # <<>>
               THEN <<Cand("MEDIUM", "Hard-coded URL in network call", <<urlm[1]>>, idx)>>
               ELSE <<>>)
              \o
              (IF ipm # <<>>
               THEN <<Cand("MEDIUM", "Hard-coded IP in network call", <<IpOf(ipm[1])>>, idx)>>
               ELSE <<>>)
         ELSE <<>>)
        \o
        Flatten([p \in 1..Len(DANGEROUS_LINE_PATTERNS) |->
                    IF \E j \in 1..Len(line) :
                          /\ line[j].kind = "Call"
                          /\ \E nm \in DANGEROUS_LINE_PATTERNS[p].names : IsSuffix(nm, line[j].names[1])
                    THEN <<Cand(DANGEROUS_LINE_PATTERNS[p].severity,
                                DANGEROUS_LINE_PATTERNS[p].message, <<>>, idx)>>
                    ELSE <<>>])

ScanCands(source) ==
    (IF source.parse = "SyntaxError"
     THEN <<Cand("MEDIUM", "Failed to parse Python AST", <<>>, source.errline)>>
     ELSE TreeCands(source))
    \o Flatten([i \in 1..Len(source.lines) |-> LineCands(source.lines[i], i)])

RECURSIVE AddAll(_, _)
AddAll(st, cands) ==
    IF cands = <<>> THEN st ELSE AddAll(add_issue(st, Head(cands)), Tail(cands))

(* _static_scan: defined when ast.parse returns or raises SyntaxError; any *)
(* other exception of ast.parse leaves _static_scan uncaught.              *)
_static_scan(source) == AddAll([issues |-> <<>>, seen |-> {}], ScanCands(source)).issues

StaticRaises(source) == source.parse = "RecursionError"

----------------------------------------------------------------------------
(* Bounded inputs of the static rule engine *)

Stmt(kind, names, literals) == [kind |-> kind, names |-> names, literals |-> literals]

Statements ==
    << Stmt("Import", << <<"subprocess">> >>, <<>>),
       Stmt("Import", << <<"os", "path">>, <<"subprocess">> >>, <<>>),
       Stmt("ImportFrom", << <<"subprocess">> >>, <<>>),
       Stmt("ImportFrom", <<>>, <<>>),
       Stmt("Call", << <<"subprocess", "run">> >>, <<"pip", "install">>),
       Stmt("Call", << <<"requests", "get">> >>, <<"http://10.0.0.5/x">>) >>

RECURSIVE SeqsUpTo(_, _)
SeqsUpTo(S, n) ==
    IF n = 0 THEN { <<>> }
    ELSE SeqsUpTo(S, n - 1) \cup
         { Append(q, x) : q \in { r \in SeqsUpTo(S, n - 1) : Len(r) = n - 1 }, x \in S }

Source(lines, parse, errline) == [lines |-> lines, parse |-> parse, errline |-> errline]

(* A placement is a sequence of statements (by their index in Statements)  *)
(* with the lines they are written on, in the order of the text; the text  *)
(* ends with the last statement.                                           *)
Placements ==
    { pl \in SeqsUpTo((1..Len(Statements)) \X (1..MaxLines), MaxStmts) :
        \A k \in 1..(Len(pl) - 1) : pl[k][2] <= pl[k + 1][2] }

StmtsOf(pl) == [k \in 1..Len(pl) |-> Statements[pl[k][1]]]

LinesOf(pl) ==
    [l \in 1..(IF pl = <<>> THEN 0 ELSE pl[Len(pl)][2]) |->
        StmtsOf(SelectSeq(pl, LAMBDA x : x[2] = l))]

(* The sources a whole scan is run on *)
ScanSources ==
    { Source(<< <<Stmt("Import", << <<"json">> >>, <<>>)>> >>, "ok", 0),
      Source(<< <<Stmt("Import", << <<"os", "path">> >>, <<>>)>> >>, "ok", 0),
      Source(<< <<Stmt("Import", << <<"subprocess">> >>, <<>>)>>,
                <<Stmt("Call", << <<"subprocess", "run">> >>, <<"pip", "install">>)>> >>, "ok", 0),
      Source(<< <<Stmt("Call", << <<"eval">> >>, <<>>)>> >>, "SyntaxError", 1),
      Source(<< <<Stmt("Import", << <<"json">> >>, <<>>)>> >>, "RecursionError", 0) }

----------------------------------------------------------------------------
(* External linter adapter.                                                *)
(*                                                                         *)
(* A linter run is [import, findings, fails]: whether bandit can be        *)
(* imported, the findings get_issue_list yields (severity as bandit spells *)
(* it, rule id, line or 0) and whether the run raises after them.          *)

Upper ==
    [x \in {"low", "medium", "high", "LOW", "MEDIUM", "HIGH"} |->
        CASE x \in {"low", "LOW"}       -> "LOW"
          [] x \in {"medium", "MEDIUM"} -> "MEDIUM"
          [] x \in {"high", "HIGH"}     -> "HIGH"]

_run_bandit(run) ==
    IF run.import = "missing"
    THEN <<Issue("LOW", Detail("Bandit scan skipped", <<>>, 0), "linter")>>
    ELSE [k \in 1..Len(run.findings) |->
            Issue(Upper[run.findings[k].severity],
                  Detail("Bandit", <<run.findings[k].test_id>>, run.findings[k].lineno), "linter")]
         \o (IF run.fails
             THEN <<Issue("LOW", Detail("Bandit scan failed", <<>>, 0), "linter")>>
             ELSE <<>>)

Finding(severity, test_id, lineno) ==
    [severity |-> severity, test_id |-> test_id, lineno |-> lineno]

LinterRuns ==
    { [import |-> "missing", findings |-> <<>>, fails |-> FALSE] }
    \cup { [import |-> "ok", findings |-> f, fails |-> x] :
             f \in { <<>>, <<Finding("LOW", "B404", 1)>>, <<Finding("medium", "B603", 2)>>,
                     <<Finding("HIGH", "B605", 0)>> },
             x \in BOOLEAN }

----------------------------------------------------------------------------
(* Verdict and orchestration helpers *)

SecureHighOnly(iss) == ~ \E i \in 1..Len(iss) : iss[i].severity = "HIGH"

Secure(iss) == ~ \E i \in 1..Len(iss) : iss[i].severity \in {"HIGH", "MEDIUM"}

ExtendFront(acc, new) == new \o acc

Extend(acc, new) == acc \o new

ScanResult(iss, sec) == [issues |-> iss, secure |-> sec]

NotAFileResult ==
    ScanResult(<<Issue("HIGH", Detail("Node path does not exist or is not a file.", <<>>, 0),
                       "orchestrator")>>, FALSE)

ReadFailedResult ==
    ScanResult(<<Issue("HIGH", Detail("Failed to read file", <<>>, 0), "orchestrator")>>, FALSE)

TimeoutIssue ==
    Issue("HIGH", Detail("Dynamic analysis timed out during module import.", <<>>, 0), "sandbox")

----------------------------------------------------------------------------
(* Sandbox runtime: inputs.                                                *)
(*                                                                         *)
(* A target is what the scanned file does when imported: loadable is       *)
(* whether spec_from_file_location yields a loader for the path, ops the   *)
(* operations its module-level code performs in order, ending how that     *)
(* code ends:                                                              *)
(*   "call"    an intercepted call, logging a record that fits the pipe    *)
(*   "bigcall" an intercepted call whose logged arguments exceed the pipe  *)
(*   "sigign"  signal.signal(SIGTERM, SIG_IGN)                             *)
(*   "finish"  the code runs to its end                                    *)
(*   "raise"   it raises an exception derived from Exception               *)
(*   "exit"    it raises SystemExit (sys.exit())                           *)
(*   "loop"    it never ends and logs nothing more (while True: pass)      *)
(*   "spam"    it never ends and keeps making intercepted calls            *)

PipeCap == 2                  \* capacity of the queue's pipe, in units

BigSize == PipeCap + 1        \* size of a record that cannot fit the pipe

Ops == {"call", "bigcall", "sigign"}

Endings == {"finish", "raise", "exit", "loop", "spam"}

Targets ==
    { [loadable |-> TRUE, ops |-> o, ending |-> e] : o \in SeqsUpTo(Ops, MaxOps), e \in Endings }
    \cup { [loadable |-> FALSE, ops |-> <<>>, ending |-> "finish"] }

NoTarget == [loadable |-> FALSE, ops |-> <<>>, ending |-> "none"]

NoSource == Source(<<>>, "none", 0)

(* What log() puts on the queue, with the size of its pickled form *)
Record(severity, msg, arg, size) ==
    [issue |-> Issue(severity, Detail(msg, arg, 0), "sandbox"), size |-> size]

BlockedCallRecord(op) ==
    IF op = "bigcall"
    THEN Record("HIGH", "Runtime call blocked: os.system", <<"big">>, BigSize)
    ELSE Record("HIGH", "Runtime call blocked: os.system", <<"small">>, 1)

NoSpecRecord == Record("MEDIUM", "Dynamic analysis failed: unable to load module spec.", <<>>, 1)

ImportRaisedRecord == Record("LOW", "Dynamic import raised", <<"ValueError">>, 1)

----------------------------------------------------------------------------
(* State *)

VARIABLES
    pc,            \* position of the scanning process
    path,          \* what node_path names: "missing", "unreadable" or "file"
    source,        \* the text read from the file
    issues,        \* scan_custom_node's issues list (_static_scan's in SpecStatic)
    result,        \* << >>, or << the dictionary returned by scan_custom_node >>
    invoked,       \* the engines called so far
    queueCreated,  \* ctx.Queue() has returned
    dyn,           \* _run_dynamic_analysis's issues list
    clock,         \* seconds spent in the current process.join
    expired,       \* is_alive() was true after join(DYNAMIC_TIMEOUT_SECONDS)
    wpc,           \* worker process: "none", "run", "exiting", "exited", "killed"
    target,        \* what is left of the target's module-level code
    sigIgn,        \* the worker process ignores SIGTERM
    buffer,        \* the queue's buffer inside the worker (records put, not yet written)
    pipe,          \* the queue's pipe: messages [rec, have, got], the last maybe partial
    enqueued,      \* history: every record for which queue.put returned
    ended          \* history: "no", or when the module-level code ended: "in_budget", "late"

vars == <<pc, path, source, issues, result, invoked, queueCreated, dyn, clock, expired,
          wpc, target, sigIgn, buffer, pipe, enqueued, ended>>

orchVars == <<path, source, issues, result, invoked>>

workerVars == <<wpc, target, sigIgn, buffer, pipe, enqueued, ended>>

Alive == wpc \in {"run", "exiting"}

RECURSIVE SumHave(_)
SumHave(p) == IF p = <<>> THEN 0 ELSE Head(p).have + SumHave(Tail(p))

Space == PipeCap - SumHave(pipe)

Written(m) == m.have + m.got

Partial(m) == Written(m) < m.rec.size

Min(a, b) == IF a < b THEN a ELSE b

SendInProgress == pipe # <<>> /\ Partial(Last(pipe))

Init ==
    /\ pc = "start"
    /\ path \in {"missing", "unreadable", "file"}
    /\ source = NoSource
    /\ issues = <<>>
    /\ result = <<>>
    /\ invoked = {}
    /\ queueCreated = FALSE
    /\ dyn = <<>>
    /\ clock = 0
    /\ expired = FALSE
    /\ wpc = "none"
    /\ target = NoTarget
    /\ sigIgn = FALSE
    /\ buffer = <<>>
    /\ pipe = <<>>
    /\ enqueued = <<>>
    /\ ended = "no"

----------------------------------------------------------------------------
(* scan_custom_node *)

PathIsFileAlways == TRUE

PathIsFile == path # "missing"

(* lines 69-87: the path check and the read *)
Validate ==
    /\ pc = "start"
    /\ IF ~PathIsFile
       THEN /\ result' = <<NotAFileResult>>
            /\ pc' = "done"
            /\ UNCHANGED source
       ELSE IF path = "unreadable"
       THEN /\ result' = <<ReadFailedResult>>
            /\ pc' = "done"
            /\ UNCHANGED source
       ELSE /\ \E src \in ScanSources : source' = src
            /\ pc' = "bandit"
            /\ UNCHANGED result
    /\ UNCHANGED <<path, issues, invoked, queueCreated, dyn, clock, expired>>
    /\ UNCHANGED workerVars

(* line 89 *)
RunBandit ==
    /\ pc = "bandit"
    /\ \E run \in LinterRuns : issues' = Extend(issues, _run_bandit(run))
    /\ invoked' = invoked \cup {"linter"}
    /\ pc' = "static"
    /\ UNCHANGED <<path, source, result, queueCreated, dyn, clock, expired>>
    /\ UNCHANGED workerVars

(* line 90: an exception of ast.parse other than SyntaxError leaves         *)
(* _static_scan and scan_custom_node.                                      *)
StaticScan ==
    /\ pc = "static"
    /\ invoked' = invoked \cup {"static"}
    /\ IF StaticRaises(source)
       THEN /\ pc' = "raised"
            /\ UNCHANGED issues
       ELSE /\ issues' = Extend(issues, _static_scan(source))
            /\ pc' = "dynamic"
    /\ UNCHANGED <<path, source, result, queueCreated, dyn, clock, expired>>
    /\ UNCHANGED workerVars

----------------------------------------------------------------------------
(* _run_dynamic_analysis *)

(* lines 264-269: fault is what the operating system refuses: "none",      *)
(* "queue" (ctx.Queue() raises OSError) or "start" (process.start() raises *)
(* OSError); neither is caught.                                            *)
DynStart ==
    /\ pc = "dynamic"
    /\ invoked' = invoked \cup {"sandbox"}
    /\ \E fault \in {"none", "queue", "start"} :
         /\ queueCreated' = (fault # "queue")
         /\ IF fault = "none"
            THEN /\ \E t \in Targets : target' = t
                 /\ wpc' = "run"
                 /\ pc' = "join"
            ELSE /\ pc' = "raised"
                 /\ UNCHANGED <<target, wpc>>
    /\ dyn' = <<>>
    /\ clock' = 0
    /\ UNCHANGED <<path, source, issues, result, expired>>
    /\ UNCHANGED <<sigIgn, buffer, pipe, enqueued, ended>>

(* A step of the worker that takes no noticeable time is pending *)
WorkerUrgent ==
    \/ wpc = "run" /\ (~target.loadable \/ target.ops # <<>>
                        \/ target.ending \in {"finish", "raise", "exit"})
    \/ Alive /\ (SendInProgress \/ buffer # <<>>) /\ Space > 0
    \/ wpc = "exiting" /\ buffer = <<>> /\ ~SendInProgress

JoinLimit == IF pc = "join" THEN DYNAMIC_TIMEOUT_SECONDS ELSE TERMINATE_JOIN_SECONDS

(* a second passes while the supervisor is blocked in process.join(...) *)
Tick ==
    /\ pc \in {"join", "join1"}
    /\ Alive
    /\ ~WorkerUrgent
    /\ clock < JoinLimit
    /\ clock' = clock + 1
    /\ UNCHANGED <<pc, queueCreated, dyn, expired>>
    /\ UNCHANGED orchVars
    /\ UNCHANGED workerVars

(* line 270: process.join(DYNAMIC_TIMEOUT_SECONDS) returns *)
Join ==
    /\ pc = "join"
    /\ ~Alive \/ clock = DYNAMIC_TIMEOUT_SECONDS
    /\ pc' = "check"
    /\ UNCHANGED <<queueCreated, dyn, clock, expired>>
    /\ UNCHANGED orchVars
    /\ UNCHANGED workerVars

(* lines 272-273: process.terminate() sends SIGTERM, which ends the worker *)
(* unless the target has set it to be ignored; what the worker had         *)
(* buffered goes with it, what it had written stays in the pipe.           *)
CheckAlive ==
    /\ pc = "check"
    /\ IF Alive
       THEN /\ expired' = TRUE
            /\ pc' = "join1"
            /\ clock' = 0
            /\ IF sigIgn
               THEN UNCHANGED <<wpc, buffer>>
               ELSE wpc' = "killed" /\ buffer' = <<>>
       ELSE /\ pc' = "drain"
            /\ UNCHANGED <<expired, clock, wpc, buffer>>
    /\ UNCHANGED <<queueCreated, dyn>>
    /\ UNCHANGED orchVars
    /\ UNCHANGED <<target, sigIgn, pipe, enqueued, ended>>

(* lines 274-278: process.join(1) returns, the timeout issue is appended *)
Join1 ==
    /\ pc = "join1"
    /\ ~Alive \/ clock = TERMINATE_JOIN_SECONDS
    /\ dyn' = Append(dyn, TimeoutIssue)
    /\ pc' = "drain"
    /\ UNCHANGED <<queueCreated, clock, expired>>
    /\ UNCHANGED orchVars
    /\ UNCHANGED workerVars

(* The supervisor takes the bytes of the head message that are in the     *)
(* pipe; the message is delivered once all of it has been taken.           *)
TakeHead ==
    LET m == Head(pipe)
    IN  IF m.got + m.have = m.rec.size
        THEN /\ pipe' = Tail(pipe)
             /\ dyn' = Append(dyn, m.rec.issue)
             /\ pc' = "drain"
        ELSE /\ pipe' = <<[m EXCEPT !.got = m.got + m.have, !.have = 0]>> \o Tail(pipe)
             /\ pc' = "recv"
             /\ UNCHANGED dyn

(* lines 280-286: queue.get_nowait() raises Empty when the pipe holds no   *)
(* byte, else it reads one whole message.                                  *)
Drain ==
    /\ pc = "drain"
    /\ IF pipe = <<>> \/ Head(pipe).have = 0
       THEN /\ pc' = "ret"
            /\ UNCHANGED <<pipe, dyn>>
       ELSE TakeHead
    /\ UNCHANGED <<queueCreated, clock, expired>>
    /\ UNCHANGED orchVars
    /\ UNCHANGED <<wpc, target, sigIgn, buffer, enqueued, ended>>

(* inside get_nowait: the blocking read of the rest of a message *)
DrainRecv ==
    /\ pc = "recv"
    /\ Head(pipe).have > 0
    /\ TakeHead
    /\ UNCHANGED <<queueCreated, clock, expired>>
    /\ UNCHANGED orchVars
    /\ UNCHANGED <<wpc, target, sigIgn, buffer, enqueued, ended>>

(* line 288 and lines 91-99 *)
Finish ==
    /\ pc = "ret"
    /\ issues' = Extend(issues, dyn)
    /\ result' = <<ScanResult(issues', Secure(issues'))>>
    /\ pc' = "done"
    /\ UNCHANGED <<path, source, invoked, queueCreated, dyn, clock, expired>>
    /\ UNCHANGED workerVars

----------------------------------------------------------------------------
(* _dynamic_import_worker, in the spawned process *)

(* line 293: queue.put appends to the queue's buffer and returns; a feeder *)
(* thread of the worker process writes the buffer to the pipe.             *)
log(rec) ==
    /\ Len(enqueued) < MaxLog
    /\ buffer' = Append(buffer, rec)
    /\ enqueued' = Append(enqueued, rec.issue)

(* lines 403-406 *)
WorkerNoSpec ==
    /\ wpc = "run"
    /\ ~target.loadable
    /\ log(NoSpecRecord)
    /\ wpc' = "exiting"
    /\ UNCHANGED <<pc, queueCreated, dyn, clock, expired>>
    /\ UNCHANGED orchVars
    /\ UNCHANGED <<target, sigIgn, pipe, ended>>

(* line 416: one operation of the module-level code; lines 310-341 for an  *)
(* intercepted call.                                                       *)
WorkerOp ==
    /\ wpc = "run"
    /\ target.loadable
    /\ target.ops # <<>>
    /\ target' = [target EXCEPT !.ops = Tail(target.ops)]
    /\ IF Head(target.ops) = "sigign"
       THEN /\ sigIgn' = TRUE
            /\ UNCHANGED <<buffer, enqueued>>
       ELSE /\ log(BlockedCallRecord(Head(target.ops)))
            /\ UNCHANGED sigIgn
    /\ UNCHANGED <<pc, queueCreated, dyn, clock, expired>>
    /\ UNCHANGED orchVars
    /\ UNCHANGED <<wpc, pipe, ended>>

(* lines 415-418: the module-level code ends.  "except Exception" catches  *)
(* the "raise" ending and logs it; SystemExit is not an Exception and      *)
(* leaves the worker function without a record.  Either way the process    *)
(* goes on to its exit handlers.                                           *)
WorkerEnd ==
    /\ wpc = "run"
    /\ target.loadable
    /\ target.ops = <<>>
    /\ target.ending \in {"finish", "raise", "exit"}
    /\ IF target.ending = "raise"
       THEN log(ImportRaisedRecord)
       ELSE UNCHANGED <<buffer, enqueued>>
    /\ wpc' = "exiting"
    /\ ended' = IF pc = "join" /\ clock < DYNAMIC_TIMEOUT_SECONDS THEN "in_budget" ELSE "late"
    /\ UNCHANGED <<pc, queueCreated, dyn, clock, expired>>
    /\ UNCHANGED orchVars
    /\ UNCHANGED <<target, sigIgn, pipe>>

(* line 416, the "spam" ending: one more intercepted call of an endless loop *)
WorkerSpam ==
    /\ wpc = "run"
    /\ target.loadable
    /\ target.ops = <<>>
    /\ target.ending = "spam"
    /\ log(BlockedCallRecord("call"))
    /\ UNCHANGED <<pc, queueCreated, dyn, clock, expired>>
    /\ UNCHANGED orchVars
    /\ UNCHANGED <<wpc, target, sigIgn, pipe, ended>>

(* The feeder thread writes as much of the next record as the pipe takes   *)
FeederWrite ==
    /\ Alive
    /\ Space > 0
    /\ IF SendInProgress
       THEN /\ pipe' = [pipe EXCEPT ![Len(pipe)].have =
                            @ + Min(Space, Last(pipe).rec.size - Written(Last(pipe)))]
            /\ UNCHANGED buffer
       ELSE /\ buffer # <<>>
            /\ pipe' = Append(pipe, [rec |-> Head(buffer),
                                     have |-> Min(Space, Head(buffer).size), got |-> 0])
            /\ buffer' = Tail(buffer)
    /\ UNCHANGED <<pc, queueCreated, dyn, clock, expired>>
    /\ UNCHANGED orchVars
    /\ UNCHANGED <<wpc, target, sigIgn, enqueued, ended>>

(* The process exits once its exit handlers have joined the feeder thread, *)
(* that is once everything it put on the queue has been written.           *)
WorkerExit ==
    /\ wpc = "exiting"
    /\ buffer = <<>>
    /\ ~SendInProgress
    /\ wpc' = "exited"
    /\ UNCHANGED <<pc, queueCreated, dyn, clock, expired>>
    /\ UNCHANGED orchVars
    /\ UNCHANGED <<target, sigIgn, buffer, pipe, enqueued, ended>>

----------------------------------------------------------------------------
(* Specifications *)

Next ==
    \/ Validate
    \/ RunBandit
    \/ StaticScan
    \/ DynStart
    \/ Tick
    \/ Join
    \/ CheckAlive
    \/ Join1
    \/ Drain
    \/ DrainRecv
    \/ Finish
    \/ WorkerNoSpec
    \/ WorkerOp
    \/ WorkerEnd
    \/ WorkerSpam
    \/ FeederWrite
    \/ WorkerExit

Spec == Init /\ [][Next]_vars

(* _static_scan alone, on every bounded source *)
InitStatic ==
    /\ pc = "static_only"
    /\ path = "file"
    /\ \E pl \in Placements :
          \/ source = Source(LinesOf(pl), "ok", 0)
          \/ \E e \in 1..MaxLines : source = Source(LinesOf(pl), "SyntaxError", e)
    /\ issues = <<>>
    /\ result = <<>>
    /\ invoked = {}
    /\ queueCreated = FALSE
    /\ dyn = <<>>
    /\ clock = 0
    /\ expired = FALSE
    /\ wpc = "none"
    /\ target = NoTarget
    /\ sigIgn = FALSE
    /\ buffer = <<>>
    /\ pipe = <<>>
    /\ enqueued = <<>>
    /\ ended = "no"

StaticOnly ==
    /\ pc = "static_only"
    /\ issues' = _static_scan(source)
    /\ pc' = "static_done"
    /\ UNCHANGED <<path, source, result, invoked, queueCreated, dyn, clock, expired>>
    /\ UNCHANGED workerVars

NextStatic == StaticOnly

SpecStatic == InitStatic /\ [][NextStatic]_vars

----------------------------------------------------------------------------
(* Properties *)

Returned == pc = "done" /\ result # <<>>

FullScanReturned == Returned /\ invoked = {"linter", "static", "sandbox"}

SandboxReturned == pc \in {"ret", "done"} /\ "sandbox" \in invoked

Count(x, s) == Cardinality({ i \in 1..Len(s) : s[i] = x })

EnginesOf(iss) == { iss[i].engine : i \in 1..Len(iss) }

(* C1: in every result scan_custom_node returns, secure is true if and     *)
(* only if no issue of the result has severity MEDIUM or HIGH.             *)
C1_SecureIffNoMediumHigh ==
    result # <<>> =>
        (result[1].secure <=>
            \A i \in 1..Len(result[1].issues) :
                result[1].issues[i].severity \notin {"MEDIUM", "HIGH"})

(* a full scan returned issues of all three engines, a MEDIUM one but no   *)
(* HIGH one among them, and the verdict is insecure                        *)
C1_Witness ==
    /\ FullScanReturned
    /\ EnginesOf(result[1].issues) = {"linter", "static", "sandbox"}
    /\ \E i \in 1..Len(result[1].issues) : result[1].issues[i].severity = "MEDIUM"
    /\ \A i \in 1..Len(result[1].issues) : result[1].issues[i].severity # "HIGH"
    /\ ~result[1].secure

(* C2: when the path names no existing regular file, no engine is ever     *)
(* invoked, no queue is created and no worker process is started, and the  *)
(* result is insecure with exactly one issue, of severity HIGH.            *)
C2_MissingFile ==
    path = "missing" =>
        /\ invoked = {}
        /\ ~queueCreated
        /\ wpc = "none"
        /\ pc # "raised"
        /\ result # <<>> =>
              /\ ~result[1].secure
              /\ Len(result[1].issues) = 1
              /\ result[1].issues[1].severity = "HIGH"

C2_Witness == path = "missing" /\ Returned

(* C3 as stated: in a returned result no linter issue precedes a static    *)
(* issue and no sandbox issue precedes a static or linter issue.           *)
C3_StaticBeforeLinter ==
    Returned =>
        \A i, j \in 1..Len(result[1].issues) :
            i < j =>
                /\ ~(result[1].issues[i].engine = "linter" /\ result[1].issues[j].engine = "static")
                /\ ~(/\ result[1].issues[i].engine = "sandbox"
                     /\ result[1].issues[j].engine \in {"static", "linter"})

EngineRank(e) == CASE e = "linter" -> 1 [] e = "static" -> 2 [] e = "sandbox" -> 3 [] OTHER -> 0

(* C3 amended: in a returned result the linter issues come first, then the *)
(* static issues, then the sandbox issues: no static issue precedes a      *)
(* linter issue and no sandbox issue precedes a linter or static issue.    *)
C3_LinterStaticSandbox ==
    Returned =>
        \A i, j \in 1..Len(result[1].issues) :
            i < j => EngineRank(result[1].issues[i].engine) <= EngineRank(result[1].issues[j].engine)

(* a full scan returned issues of all three engines, the sandbox ones      *)
(* drained after a timeout                                                 *)
C3_Witness ==
    /\ FullScanReturned
    /\ EnginesOf(result[1].issues) = {"linter", "static", "sandbox"}
    /\ expired
    /\ Len(dyn) >= 2

(* C4: scan_custom_node never raises: no fault of an engine leaves it.     *)
C4_NeverRaises == pc # "raised"

(* C5: when the worker is alive at the expiry of the budget, the sandbox   *)
(* result holds exactly one timeout issue and the worker no longer runs    *)
(* once _run_dynamic_analysis has returned.                                *)
C5_TimeoutTerminates ==
    (SandboxReturned /\ expired) => (Count(TimeoutIssue, dyn) = 1 /\ ~Alive)

(* the supervisor is inside get_nowait waiting for the rest of a message   *)
(* that no living process will write                                       *)
Hung == pc = "recv" /\ Head(pipe).have = 0 /\ ~Alive

(* C6: the supervisor always returns: its drain never waits for bytes that *)
(* will not come.                                                          *)
C6_NeverHangs == ~Hung

(* C7: every record the worker enqueued before it exited or was terminated *)
(* is in the list _run_dynamic_analysis returns.                           *)
C7_NoEvidenceLost ==
    (SandboxReturned /\ ~Alive) =>
        \A k \in 1..Len(enqueued) : Count(enqueued[k], dyn) >= Count(enqueued[k], enqueued)

(* C8: when the module-level code ends by raising, whatever it raises, the *)
(* drained result holds exactly one LOW issue naming the exception.        *)
C8_RaiseRecorded ==
    (SandboxReturned /\ ended = "in_budget" /\ target.ending \in {"raise", "exit"}) =>
        Count(ImportRaisedRecord.issue, dyn) = 1

(* C10: when the module-level code ends within the budget, the sandbox     *)
(* result holds no timeout issue.                                          *)
C10_NoTimeoutWhenFinished ==
    (SandboxReturned /\ ended = "in_budget") => Count(TimeoutIssue, dyn) = 0

----------------------------------------------------------------------------
(* Properties of _static_scan, under SpecStatic *)

MediumModules == { m \in DOMAIN RISKY_IMPORTS : RISKY_IMPORTS[m] = "MEDIUM" }

ImportsOn(line, m) ==
    \E j \in 1..Len(line) :
        /\ line[j].kind \in {"Import", "ImportFrom"}
        /\ \E k \in 1..Len(line[j].names) : Head(line[j].names[k]) = m

Imported(m) == \E l \in 1..Len(source.lines) : ImportsOn(source.lines[l], m)

ImportIssuesFor(m) ==
    { i \in 1..Len(issues) :
        issues[i].detail.msg = "Imports risky module" /\ issues[i].detail.arg = <<m>> }

(* C9 as stated: a parsed source that imports a MEDIUM risky module yields *)
(* exactly one issue for that module, however often and wherever it is     *)
(* imported.                                                               *)
C9_OneIssuePerModule ==
    (pc = "static_done" /\ source.parse = "ok") =>
        \A m \in MediumModules :
            Imported(m) =>
                /\ Cardinality(ImportIssuesFor(m)) = 1
                /\ \A i \in ImportIssuesFor(m) : issues[i].severity = "MEDIUM"

(* C9 amended: a parsed source yields, for every MEDIUM risky module and   *)
(* every line, exactly one MEDIUM issue naming the module and the line if  *)
(* the module is imported on that line (however often), and none if not.   *)
C9_OneIssuePerModuleAndLine ==
    (pc = "static_done" /\ source.parse = "ok") =>
        \A m \in MediumModules :
            /\ \A i \in ImportIssuesFor(m) :
                  /\ issues[i].severity = "MEDIUM"
                  /\ issues[i].detail.line \in 1..Len(source.lines)
            /\ \A l \in 1..Len(source.lines) :
                  Cardinality({ i \in ImportIssuesFor(m) : issues[i].detail.line = l })
                      = IF ImportsOn(source.lines[l], m) THEN 1 ELSE 0

(* subprocess is imported twice on line 1 and once more on line 2, and the *)
(* scan has produced its two issues                                        *)
C9_Witness ==
    /\ pc = "static_done"
    /\ source.parse = "ok"
    /\ Len(source.lines) = 2
    /\ source.lines[1] = << Stmt("Import", << <<"subprocess">> >>, <<>>),
                            Stmt("ImportFrom", << <<"subprocess">> >>, <<>>) >>
    /\ ImportsOn(source.lines[2], "subprocess")
    /\ Cardinality(ImportIssuesFor("subprocess")) = 2

====
